---- MODULE Spec2Model ----
(***************************************************************************)
(* The chat component of yewchat (src/components/chat.rs): the session     *)
(* state held by `Chat`, its constructor `create`, its message handler     *)
(* `update` (Msg::HandleMsg, Msg::SubmitMessage) and the part of `view`    *)
(* that derives what is shown from `users` and `messages`.                 *)
(*                                                                         *)
(* A Rust String is a sequence of atoms.  An atom is a piece of text that  *)
(* the program never looks inside; the characters the program does look at *)
(* (JSON punctuation, the quote, the backslash, the space, the characters  *)
(* of ".gif") are atoms of their own.  Option<T> is a sequence of length 0 *)
(* (None) or 1 (Some).                                                     *)
(***************************************************************************)
EXTENDS Integers, Sequences, FiniteSets, TLC

----------------------------------------------------------------------------
(* Option<T> *)

None == <<>>

Some(x) == <<x>>

IsSome(o) == Len(o) = 1

Unwrap(o) == o[1]

\* Option::unwrap_or_default for Option<Vec<String>>
UnwrapOrDefault(o) == IF IsSome(o) THEN o[1] ELSE <<>>

----------------------------------------------------------------------------
(* JSON text, as serde_json writes and reads it *)

QUOTE == "\""

BACKSLASH == "\\"

SPACE == " "

TAB == "\t"

\* white space between JSON tokens
JsonWs == {SPACE, TAB}

\* the atoms that are JSON numbers and booleans in the texts of this model
ScalarAtoms == {"5", "true"}

\* mutant: the quote is escaped, the backslash and the tab are not
EscapeAtomQuoteOnly(c) == IF c = QUOTE THEN <<BACKSLASH, c>> ELSE <<c>>

\* one atom of a string inside a JSON string literal
EscapeAtom(c) ==
    IF c \in {QUOTE, BACKSLASH} THEN <<BACKSLASH, c>>
    ELSE IF c = TAB THEN <<BACKSLASH, "t">>
    ELSE <<c>>

RECURSIVE EscapeStr(_)
\* the body of a JSON string literal
EscapeStr(s) == IF s = <<>> THEN <<>> ELSE EscapeAtom(Head(s)) \o EscapeStr(Tail(s))

JsonStr(s) == <<QUOTE>> \o EscapeStr(s) \o <<QUOTE>>

JsonNull == <<"null">>

JsonOptStr(o) == IF IsSome(o) THEN JsonStr(Unwrap(o)) ELSE JsonNull

RECURSIVE JsonStrList(_)
JsonStrList(l) ==
    IF l = <<>> THEN <<>>
    ELSE JsonStr(Head(l)) \o (IF Len(l) > 1 THEN <<",">> ELSE <<>>) \o JsonStrList(Tail(l))

JsonOptStrArray(o) == IF IsSome(o) THEN <<"[">> \o JsonStrList(Unwrap(o)) \o <<"]">> ELSE JsonNull

\* #[serde(rename_all = "lowercase")] enum MsgTypes { Users, Register, Message }
MsgTypes == {"Users", "Register", "Message"}

MsgTypeTag(t) ==
    CASE t = "Users" -> <<"users">>
      [] t = "Register" -> <<"register">>
      [] t = "Message" -> <<"message">>

\* #[serde(rename_all = "camelCase")] struct WebSocketMessage
WebSocketMessage(t, arr, d) == [message_type |-> t, data_array |-> arr, data |-> d]

\* serde_json::to_string(&WebSocketMessage): fields in declaration order
to_string(m) ==
    <<"{">> \o JsonStr(<<"messageType">>) \o <<":">> \o JsonStr(MsgTypeTag(m.message_type))
    \o <<",">> \o JsonStr(<<"dataArray">>) \o <<":">> \o JsonOptStrArray(m.data_array)
    \o <<",">> \o JsonStr(<<"data">>) \o <<":">> \o JsonOptStr(m.data)
    \o <<"}">>

ParseFail == [ok |-> FALSE, v |-> <<"null">>, i |-> 0]

ParseOk(v, i) == [ok |-> TRUE, v |-> v, i |-> i]

RECURSIVE SkipWs(_, _)
SkipWs(s, i) == IF i <= Len(s) /\ s[i] \in JsonWs THEN SkipWs(s, i + 1) ELSE i

RECURSIVE ParseStr(_, _, _)
\* the string literal whose opening quote is before position i; a raw control
\* character inside it is an error, the escapes are \" \\ and \t
ParseStr(s, i, acc) ==
    IF i > Len(s) THEN ParseFail
    ELSE IF s[i] = QUOTE THEN ParseOk(<<"str", acc>>, i + 1)
    ELSE IF s[i] = TAB THEN ParseFail
    ELSE IF s[i] = BACKSLASH
         THEN IF i + 1 <= Len(s) /\ s[i + 1] \in {QUOTE, BACKSLASH}
              THEN ParseStr(s, i + 2, Append(acc, s[i + 1]))
              ELSE IF i + 1 <= Len(s) /\ s[i + 1] = "t"
              THEN ParseStr(s, i + 2, Append(acc, TAB))
              ELSE ParseFail
    ELSE ParseStr(s, i + 1, Append(acc, s[i]))

RECURSIVE ParseValue(_, _)
RECURSIVE ParseValueAt(_, _)
RECURSIVE ParseArrayAt(_, _)
RECURSIVE ParseElems(_, _, _)
RECURSIVE ElemsAfter(_, _, _)
RECURSIVE ElemsSep(_, _, _)
RECURSIVE ParseObjectAt(_, _)
RECURSIVE ParseMembers(_, _, _)
RECURSIVE MemberKey(_, _, _)
RECURSIVE MemberColon(_, _, _)
RECURSIVE MemberValue(_, _, _, _)
RECURSIVE MemberAfter(_, _, _, _)
RECURSIVE MemberSep(_, _, _)

\* one JSON value starting at or after position i0
ParseValue(s, i0) == ParseValueAt(s, SkipWs(s, i0))

\* one JSON value starting at position i, which is no white space
ParseValueAt(s, i) ==
    IF i > Len(s) THEN ParseFail
    ELSE IF s[i] = "null" THEN ParseOk(<<"null">>, i + 1)
    ELSE IF s[i] \in ScalarAtoms THEN ParseOk(<<"scalar">>, i + 1)
    ELSE IF s[i] = QUOTE THEN ParseStr(s, i + 1, <<>>)
    ELSE IF s[i] = "[" THEN ParseArrayAt(s, SkipWs(s, i + 1))
    ELSE IF s[i] = "{" THEN ParseObjectAt(s, SkipWs(s, i + 1))
    ELSE ParseFail

\* after "[": the empty array, or its elements
ParseArrayAt(s, j) ==
    IF j <= Len(s) /\ s[j] = "]" THEN ParseOk(<<"arr", <<>>>>, j + 1)
    ELSE ParseElems(s, j, <<>>)

\* an element, then "," and more elements or "]"
ParseElems(s, i, acc) == ElemsAfter(s, ParseValue(s, i), acc)

ElemsAfter(s, r, acc) ==
    IF r.ok THEN ElemsSep(s, SkipWs(s, r.i), Append(acc, r.v)) ELSE ParseFail

ElemsSep(s, j, acc) ==
    IF j > Len(s) THEN ParseFail
    ELSE IF s[j] = "," THEN ParseElems(s, j + 1, acc)
    ELSE IF s[j] = "]" THEN ParseOk(<<"arr", acc>>, j + 1)
    ELSE ParseFail

\* after "{": the empty object, or its members
ParseObjectAt(s, j) ==
    IF j <= Len(s) /\ s[j] = "}" THEN ParseOk(<<"obj", <<>>>>, j + 1)
    ELSE ParseMembers(s, j, <<>>)

\* a member "key" : value, then "," and more members or "}"
ParseMembers(s, i, acc) == MemberKey(s, SkipWs(s, i), acc)

MemberKey(s, k, acc) ==
    IF k > Len(s) \/ s[k] # QUOTE THEN ParseFail
    ELSE MemberColon(s, ParseStr(s, k + 1, <<>>), acc)

MemberColon(s, key, acc) ==
    IF key.ok THEN MemberValue(s, key.v[2], SkipWs(s, key.i), acc) ELSE ParseFail

MemberValue(s, name, c, acc) ==
    IF c > Len(s) \/ s[c] # ":" THEN ParseFail
    ELSE MemberAfter(s, name, ParseValue(s, c + 1), acc)

MemberAfter(s, name, r, acc) ==
    IF r.ok THEN MemberSep(s, SkipWs(s, r.i), Append(acc, <<name, r.v>>)) ELSE ParseFail

MemberSep(s, j, acc) ==
    IF j > Len(s) THEN ParseFail
    ELSE IF s[j] = "," THEN ParseMembers(s, j + 1, acc)
    ELSE IF s[j] = "}" THEN ParseOk(<<"obj", acc>>, j + 1)
    ELSE ParseFail

\* a whole text as one JSON value: nothing but white space may follow it
WholeText(s, r) == IF r.ok /\ SkipWs(s, r.i) = Len(s) + 1 THEN r ELSE ParseFail

ParseJson(s) == WholeText(s, ParseValue(s, 1))

----------------------------------------------------------------------------
(* serde's derived Deserialize for the three wire types *)

IsStr(v) == v[1] = "str"

IsStrArray(v) == v[1] = "arr" /\ \A k \in 1..Len(v[2]) : IsStr(v[2][k])

StrArray(v) == [k \in 1..Len(v[2]) |-> v[2][k][2]]

\* the members of a JSON object whose key is `key`
Members(obj, key) == SelectSeq(obj, LAMBDA mem : mem[1] = key)

\* MsgTypes from a JSON value: a string that is one of the lowercase tags
DeMsgTypes(v) ==
    IF IsStr(v) /\ \E t \in MsgTypes : MsgTypeTag(t) = v[2]
    THEN Some(CHOOSE t \in MsgTypes : MsgTypeTag(t) = v[2])
    ELSE None

\* Option<String> from a JSON value: Some(Some(s)), Some(None) for null, None for an error
DeOptString(v) ==
    IF v[1] = "null" THEN Some(None)
    ELSE IF IsStr(v) THEN Some(Some(v[2]))
    ELSE None

\* Option<Vec<String>> from a JSON value, likewise
DeOptStrArray(v) ==
    IF v[1] = "null" THEN Some(None)
    ELSE IF IsStrArray(v) THEN Some(Some(StrArray(v)))
    ELSE None

DecodeFail == [ok |-> FALSE]

DecodeOk(x) == [ok |-> TRUE, msg |-> x]

\* the three fields once each is deserialized: an error in any is an error
BuildWebSocketMessage(t, arr, d) ==
    IF IsSome(t) /\ IsSome(arr) /\ IsSome(d)
    THEN DecodeOk(WebSocketMessage(Unwrap(t), Unwrap(arr), Unwrap(d)))
    ELSE DecodeFail

\* a required field: exactly one member with the key
RequiredMsgTypes(mems) == IF Len(mems) = 1 THEN DeMsgTypes(mems[1][2]) ELSE None

\* mutant: the field is a plain Vec<String>, which must be present and an array
PlainStrArray(mems) ==
    IF Len(mems) = 1 /\ IsStrArray(mems[1][2]) THEN Some(Some(StrArray(mems[1][2]))) ELSE None

\* an Option field: absent is None, present once is deserialized, repeated is an error
OptionalStrArray(mems) ==
    IF Len(mems) = 0 THEN Some(None)
    ELSE IF Len(mems) = 1 THEN DeOptStrArray(mems[1][2])
    ELSE None

OptionalString(mems) ==
    IF Len(mems) = 0 THEN Some(None)
    ELSE IF Len(mems) = 1 THEN DeOptString(mems[1][2])
    ELSE None

\* WebSocketMessage from a JSON object: camelCase keys, unknown keys skipped
DeWebSocketMessageMap(obj) ==
    BuildWebSocketMessage(RequiredMsgTypes(Members(obj, <<"messageType">>)),
                          OptionalStrArray(Members(obj, <<"dataArray">>)),
                          OptionalString(Members(obj, <<"data">>)))

\* WebSocketMessage from a JSON array: the three fields in declaration order
DeWebSocketMessageSeq(a) ==
    IF Len(a) = 3
    THEN BuildWebSocketMessage(DeMsgTypes(a[1]), DeOptStrArray(a[2]), DeOptString(a[3]))
    ELSE DecodeFail

DeWebSocketMessage(r) ==
    IF ~r.ok THEN DecodeFail
    ELSE IF r.v[1] = "obj" THEN DeWebSocketMessageMap(r.v[2])
    ELSE IF r.v[1] = "arr" THEN DeWebSocketMessageSeq(r.v[2])
    ELSE DecodeFail

\* serde_json::from_str::<WebSocketMessage>(&s)
from_str_WebSocketMessage(s) == DeWebSocketMessage(ParseJson(s))

\* struct MessageData { from: String, message: String }
MessageData(f, m) == [from |-> f, message |-> m]

\* mutant: a missing field is the empty string, as under #[serde(default)]
RequiredStringOrDefault(mems) ==
    IF Len(mems) = 0 THEN Some(<<>>)
    ELSE IF Len(mems) = 1 /\ IsStr(mems[1][2]) THEN Some(mems[1][2][2])
    ELSE None

\* a required String field: exactly one member with the key, and a string
RequiredString(mems) ==
    IF Len(mems) = 1 /\ IsStr(mems[1][2]) THEN Some(mems[1][2][2]) ELSE None

\* mutant: the two fields are built the wrong way round
BuildMessageDataSwapped(f, m) ==
    IF IsSome(f) /\ IsSome(m) THEN DecodeOk(MessageData(Unwrap(m), Unwrap(f))) ELSE DecodeFail

BuildMessageData(f, m) ==
    IF IsSome(f) /\ IsSome(m) THEN DecodeOk(MessageData(Unwrap(f), Unwrap(m))) ELSE DecodeFail

DeString(v) == IF IsStr(v) THEN Some(v[2]) ELSE None

DeMessageData(r) ==
    IF ~r.ok THEN DecodeFail
    ELSE IF r.v[1] = "obj"
         THEN BuildMessageData(RequiredString(Members(r.v[2], <<"from">>)),
                               RequiredString(Members(r.v[2], <<"message">>)))
    ELSE IF r.v[1] = "arr" /\ Len(r.v[2]) = 2
         THEN BuildMessageData(DeString(r.v[2][1]), DeString(r.v[2][2]))
    ELSE DecodeFail

\* serde_json::from_str::<MessageData>(&data)
from_str_MessageData(s) == DeMessageData(ParseJson(s))

----------------------------------------------------------------------------
(* Bounds and the inputs the environment may supply *)

\* most entries `messages` may hold before further chat frames are withheld
MaxHistory == 2

\* most sends on wss.tx (the Register send included) before submits are withheld
MaxSends == 2

Alice == <<"alice">>

Bob == <<"bob">>

Carol == <<"carol">>

\* user.username of the User context: a name that trimming or escaping would change
Usernames == {<<SPACE, "al", QUOTE>>}

\* the name lists the server broadcasts
UserLists == {<<>>, <<Alice, Bob>>, <<Bob, Carol>>, <<Bob, Alice>>}

\* the chat payloads the server relays
ChatMessages == {MessageData(Alice, <<"h", "i">>), MessageData(Carol, <<"c", ".", "g", "i", "f">>)}

\* what the user may have typed into the input element
RawInputs == {<<>>, <<SPACE, TAB>>, <<SPACE, "y", TAB, "o", SPACE>>}

\* the server's encoding of a chat payload: {"from":"..","message":".."}
ChatJson(m) ==
    <<"{">> \o JsonStr(<<"from">>) \o <<":">> \o JsonStr(m.from)
    \o <<",">> \o JsonStr(<<"message">>) \o <<":">> \o JsonStr(m.message) \o <<"}">>

UsersFrame(l) == to_string(WebSocketMessage("Users", Some(l), None))

ChatFrame(m) == to_string(WebSocketMessage("Message", None, Some(ChatJson(m))))

\* {"messageType":"<tag>"}: both optional fields absent
BareFrame(tag) == <<"{">> \o JsonStr(<<"messageType">>) \o <<":">> \o JsonStr(<<tag>>) \o <<"}">>

\* {"messageType":"<tag>","<key>":<value text>}
OneFieldFrame(tag, key, value) ==
    <<"{">> \o JsonStr(<<"messageType">>) \o <<":">> \o JsonStr(<<tag>>)
    \o <<",">> \o JsonStr(<<key>>) \o <<":">> \o value \o <<"}">>

NotJsonFrame == <<"not", SPACE, "json">>

BogusKindFrame == BareFrame("bogus")

\* frames that fail to decode as a WebSocketMessage
MalformedFrames ==
    { NotJsonFrame, BogusKindFrame, BareFrame("Users"), <<"{", "}">>,
      OneFieldFrame("users", "dataArray", <<"5">>),
      OneFieldFrame("users", "dataArray", <<"[", "5", "]">>),
      OneFieldFrame("message", "data", <<"5">>),
      UsersFrame(<<Carol>>) \o <<"x">> }

\* Users-kind frames that are not what to_string writes for a plain list, each with
\* the name list it carries: dataArray null, absent, beside an unknown key, in the
\* array form of the struct, and beside a data string
OddUsersFrames ==
    { <<to_string(WebSocketMessage("Users", None, None)), <<>>>>,
      <<BareFrame("users"), <<>>>>,
      <<OneFieldFrame("users", "extra", <<"5">>), <<>>>>,
      <<(<<"[">> \o JsonStr(<<"users">>) \o <<",", "[">> \o JsonStr(Carol) \o <<"]", ",", "null", "]">>),
        <<Carol>>>>,
      <<to_string(WebSocketMessage("Users", Some(<<Carol>>), Some(Bob))), <<Carol>>>> }

\* every Users-kind frame of the model with the name list it carries
UsersFrames == {<<UsersFrame(l), l>> : l \in UserLists} \cup OddUsersFrames

\* Message-kind frames that decode as an envelope but carry no chat payload
BadChatFrames ==
    { to_string(WebSocketMessage("Message", None, None)),
      BareFrame("message"),
      to_string(WebSocketMessage("Message", None, Some(<<"y", "o">>))),
      to_string(WebSocketMessage("Message", None, Some(<<>>))),
      to_string(WebSocketMessage("Message", None, Some(<<"{">> \o JsonStr(<<"from">>) \o <<":">> \o JsonStr(Alice) \o <<"}">>))),
      to_string(WebSocketMessage("Message", None, Some(<<"{">> \o JsonStr(<<"from">>) \o <<":", "null", ",">> \o JsonStr(<<"message">>) \o <<":">> \o JsonStr(<<"h", "i">>) \o <<"}">>))),
      to_string(WebSocketMessage("Message", Some(<<Alice>>), None)) }

RegisterFrames ==
    { to_string(WebSocketMessage("Register", None, Some(Bob))),
      to_string(WebSocketMessage("Register", Some(<<Carol>>), Some(ChatJson(MessageData(Alice, <<"h", "i">>))))) }

UsersFrameTexts == {p[1] : p \in UsersFrames}

\* every frame of the model that carries a chat payload, with the payload
ChatFrames == {<<ChatFrame(m), m>> : m \in ChatMessages}

ChatFrameTexts == {p[1] : p \in ChatFrames}

\* every text the event bus may deliver
InboundFrames ==
    UsersFrameTexts \cup ChatFrameTexts
    \cup BadChatFrames \cup RegisterFrames \cup MalformedFrames

\* from_str is a function of the text alone: each frame's decoding, worked out once
FrameDecoding == [s \in InboundFrames |-> from_str_WebSocketMessage(s)]

\* the data strings of the frames that decode with one
DataTexts == {Unwrap(FrameDecoding[s].msg.data) :
                 s \in {f \in InboundFrames : FrameDecoding[f].ok /\ IsSome(FrameDecoding[f].msg.data)}}

DataDecoding == [d \in DataTexts |-> from_str_MessageData(d)]

----------------------------------------------------------------------------
(* The component *)

VARIABLES
    pc,          \* "uninit" before create, "created" before the first render, then "active"
    username,    \* user.username of the User context
    users,       \* Chat.users : Vec<UserProfile>
    messages,    \* Chat.messages : Vec<MessageData>
    chat_input,  \* Chat.chat_input : None until the input element is mounted, then its value
    tx,          \* the try_send calls made on wss.tx, in order: the text and whether it was Ok
    ret,         \* what the last call of update returned (true asks yew to render again)
    path,        \* the branch the last call of create or update took
    shown,       \* what view produced the last time yew rendered
    relayed      \* the chat payload of a peer that the server is relaying, when one is followed

vars == <<pc, username, users, messages, chat_input, tx, ret, path, shown, relayed>>

\* format!("https://avatars.dicebear.com/api/adventurer-neutral/{}.svg", u)
AvatarUrl(u) == <<"https://avatars.dicebear.com/api/adventurer-neutral/">> \o u \o <<".svg">>

\* UserProfile { name: u.clone(), avatar: format!(..) }
UserProfile(u) == [name |-> u, avatar |-> AvatarUrl(u)]

\* mutant: every profile gets the avatar of the first name of the list
CollectProfilesFirstAvatar(users_from_message) ==
    [k \in 1..Len(users_from_message) |->
        [name |-> users_from_message[k], avatar |-> AvatarUrl(users_from_message[1])]]

\* users_from_message.iter().map(|u| UserProfile {..}).collect()
CollectProfiles(users_from_message) ==
    [k \in 1..Len(users_from_message) |-> UserProfile(users_from_message[k])]

\* mutant: the new names are merged into the list held, not assigned over it
AssignUsersMerge(self_users, users_from_message) ==
    self_users \o SelectSeq(CollectProfiles(users_from_message),
                            LAMBDA u : \A k \in 1..Len(self_users) : self_users[k] # u)

\* self.users = ...: the value assigned to self.users on a Users frame
AssignUsers(self_users, users_from_message) == CollectProfiles(users_from_message)

\* mutant: a payload equal to an entry already held is not pushed again
PushMessageOnce(self_messages, message_data) ==
    IF \E k \in 1..Len(self_messages) : self_messages[k] = message_data
    THEN self_messages
    ELSE Append(self_messages, message_data)

\* mutant: the new entry is put in front
PushMessageFront(self_messages, message_data) == <<message_data>> \o self_messages

\* self.messages.push(message_data)
PushMessage(self_messages, message_data) == Append(self_messages, message_data)

\* a branch of update that ends in `false`: nothing is assigned
Unchanged(self_users, self_messages, branch) ==
    [users |-> self_users, messages |-> self_messages, ret |-> FALSE, path |-> branch]

\* the branch unwrap_or_default takes: the list of the frame, or the empty default
UsersPath(data_array) == IF IsSome(data_array) THEN "users" ELSE "users_default"

\* mutant: a Users frame asks for a render only when the list it assigns differs
OnUsersReportsDiff(msg, self_users, self_messages) ==
    [users |-> AssignUsers(self_users, UnwrapOrDefault(msg.data_array)),
     messages |-> self_messages,
     ret |-> AssignUsers(self_users, UnwrapOrDefault(msg.data_array)) # self_users,
     path |-> UsersPath(msg.data_array)]

\* MsgTypes::Users => { self.users = ..; true }
OnUsers(msg, self_users, self_messages) ==
    [users |-> AssignUsers(self_users, UnwrapOrDefault(msg.data_array)),
     messages |-> self_messages, ret |-> TRUE, path |-> UsersPath(msg.data_array)]

\* mutant: pushing a chat entry starts the user list afresh
OnDataDropsUsers(message_data, self_users, self_messages) ==
    IF message_data.ok
    THEN [users |-> <<>>, messages |-> PushMessage(self_messages, message_data.msg),
          ret |-> TRUE, path |-> "message"]
    ELSE Unchanged(self_users, self_messages, "message_bad_data")

\* if let Ok(message_data) = from_str::<MessageData>(&data) { push; return true }
OnData(message_data, self_users, self_messages) ==
    IF message_data.ok
    THEN [users |-> self_users, messages |-> PushMessage(self_messages, message_data.msg),
          ret |-> TRUE, path |-> "message"]
    ELSE Unchanged(self_users, self_messages, "message_bad_data")

\* the data string's decoding, worked out once per text
DecodeData(data) == IF data \in DataTexts THEN DataDecoding[data] ELSE from_str_MessageData(data)

\* MsgTypes::Message => { if let Some(data) = msg.data { .. } false }
OnMessage(msg, self_users, self_messages) ==
    IF IsSome(msg.data)
    THEN OnData(DecodeData(Unwrap(msg.data)), self_users, self_messages)
    ELSE Unchanged(self_users, self_messages, "message_no_data")

\* mutant: a Register frame is taken for a Users frame
OnDecodedRegisterAsUsers(msg, self_users, self_messages) ==
    CASE msg.message_type \in {"Users", "Register"} -> OnUsers(msg, self_users, self_messages)
      [] msg.message_type = "Message" -> OnMessage(msg, self_users, self_messages)
      [] OTHER -> Unchanged(self_users, self_messages, "other_kind")

\* match msg.message_type
OnDecoded(msg, self_users, self_messages) ==
    CASE msg.message_type = "Users" -> OnUsers(msg, self_users, self_messages)
      [] msg.message_type = "Message" -> OnMessage(msg, self_users, self_messages)
      [] OTHER -> Unchanged(self_users, self_messages, "other_kind")

\* mutant: a frame that does not decode resets the session's state
OnDecodeErrorReset(self_users, self_messages) ==
    [users |-> <<>>, messages |-> <<>>, ret |-> TRUE, path |-> "decode_error"]

\* the else of `if let Ok(msg) = from_str::<WebSocketMessage>(&s)`
OnDecodeError(self_users, self_messages) == Unchanged(self_users, self_messages, "decode_error")

OnFrame(decoded, self_users, self_messages) ==
    IF decoded.ok THEN OnDecoded(decoded.msg, self_users, self_messages)
    ELSE OnDecodeError(self_users, self_messages)

\* the frame's decoding, worked out once per text
DecodeFrame(s) == IF s \in InboundFrames THEN FrameDecoding[s] ELSE from_str_WebSocketMessage(s)

\* the outcome of Msg::HandleMsg(s) on the fields it may touch
HandleMsgOutcome(s, self_users, self_messages) == OnFrame(DecodeFrame(s), self_users, self_messages)

\* mutant: the suffix may stand anywhere in the text
contains(s, suffix) ==
    \E i \in 1..Len(s) : i + Len(suffix) - 1 <= Len(s) /\ SubSeq(s, i, i + Len(suffix) - 1) = suffix

\* str::ends_with
ends_with(s, suffix) ==
    Len(s) >= Len(suffix) /\ SubSeq(s, Len(s) - Len(suffix) + 1, Len(s)) = suffix

GifSuffix == <<".", "g", "i", "f">>

\* mutant: the first user is taken whatever its name
FindUserAny(self_users, m) == IF self_users # <<>> THEN Some(self_users[1]) ELSE None

\* self.users.iter().find(|u| u.name == m.from)
FindUser(self_users, m) ==
    IF \E k \in 1..Len(self_users) : self_users[k].name = m.from
    THEN Some(self_users[CHOOSE k \in 1..Len(self_users) :
                  /\ self_users[k].name = m.from
                  /\ \A j \in 1..(k - 1) : self_users[j].name # m.from])
    ELSE None

\* the <li> of the side bar for one user
ViewUser(u) == [src |-> u.avatar, alt |-> <<"Avatar of ">> \o u.name, name |-> u.name]

\* the avatar element of one chat entry: the <img> of the user found, or the "?" <div>
ViewAvatar(user) ==
    IF IsSome(user)
    THEN [tag |-> "img", src |-> Unwrap(user).avatar, alt |-> <<"Avatar of ">> \o Unwrap(user).name]
    ELSE [tag |-> "div", src |-> <<>>, alt |-> <<"?">>]

\* the body element of one chat entry: an <img> for a gif, a <p> otherwise
ViewBody(m) ==
    IF ends_with(m.message, GifSuffix)
    THEN [tag |-> "img", text |-> m.message]
    ELSE [tag |-> "p", text |-> m.message]

ViewMessage(self_users, m) ==
    [avatar |-> ViewAvatar(FindUser(self_users, m)), from |-> m.from, body |-> ViewBody(m)]

\* Chat::view: the side bar and the chat area as derived from the two vectors
view(self_users, self_messages) ==
    [sidebar |-> [k \in 1..Len(self_users) |-> ViewUser(self_users[k])],
     chat |-> [k \in 1..Len(self_messages) |-> ViewMessage(self_users, self_messages[k])]]

\* yew calls view again after an update that returned true, before the next event
Rerender(should_render, self_users, self_messages, old) ==
    IF should_render THEN view(self_users, self_messages) ELSE old

WhiteSpace == {SPACE, TAB}

RECURSIVE TrimStart(_)
TrimStart(s) == IF s # <<>> /\ Head(s) \in WhiteSpace THEN TrimStart(Tail(s)) ELSE s

RECURSIVE TrimEnd(_)
TrimEnd(s) ==
    IF s # <<>> /\ s[Len(s)] \in WhiteSpace THEN TrimEnd(SubSeq(s, 1, Len(s) - 1)) ELSE s

\* mutant: the text is used as typed
NoTrim(s) == s

\* str::trim
trim(s) == TrimEnd(TrimStart(s))

NothingShown == [sidebar |-> <<>>, chat |-> <<>>]

Init ==
    /\ pc = "uninit"
    /\ username \in Usernames
    /\ users = <<>>
    /\ messages = <<>>
    /\ chat_input = None
    /\ tx = <<>>
    /\ ret = FALSE
    /\ path = "none"
    /\ shown = NothingShown
    /\ relayed = None

\* mutant: the username is trimmed before it is sent
RegisterMessageTrimmed(name) == WebSocketMessage("Register", None, Some(trim(name)))

\* the Register envelope create builds
RegisterMessage(name) == WebSocketMessage("Register", None, Some(name))

\* Chat::create: one try_send of the Register envelope, whose result only decides a
\* log line, then the component with empty vectors and an unbound NodeRef
Create ==
    /\ pc = "uninit"
    /\ \E ok \in BOOLEAN :
          /\ tx' = Append(tx, [text |-> to_string(RegisterMessage(username)), ok |-> ok])
          /\ path' = "create"
    /\ users' = <<>>
    /\ messages' = <<>>
    /\ chat_input' = None
    /\ pc' = "created"
    /\ UNCHANGED <<username, ret, shown, relayed>>

\* the first render: view is called and the <input> it declares is mounted, empty
FirstRender ==
    /\ pc = "created"
    /\ shown' = view(users, messages)
    /\ chat_input' = Some(<<>>)
    /\ pc' = "active"
    /\ UNCHANGED <<username, users, messages, tx, ret, path, relayed>>

\* Chat::update on Msg::HandleMsg(s)
ApplyOutcome(out) ==
    /\ Len(out.messages) <= MaxHistory
    /\ path' = out.path
    /\ ret' = out.ret
    /\ users' = out.users
    /\ messages' = out.messages
    /\ shown' = Rerender(out.ret, out.users, out.messages, shown)

HandleMsg(s) ==
    /\ pc = "active"
    /\ UNCHANGED <<pc, username, chat_input, tx, relayed>>
    /\ ApplyOutcome(HandleMsgOutcome(s, users, messages))

\* mutant: the envelope carries the names of the users held when it is built
ChatEnvelopeWithUsers(message_text) ==
    WebSocketMessage("Message",
                     IF users = <<>> THEN None ELSE Some([k \in 1..Len(users) |-> users[k].name]),
                     Some(message_text))

\* mutant: the text goes into data_array and data is left out
ChatEnvelopeInArray(message_text) == WebSocketMessage("Message", Some(<<message_text>>), None)

\* the Message envelope update builds from the trimmed input
ChatEnvelope(message_text) == WebSocketMessage("Message", None, Some(message_text))

\* mutant: nothing is sent unless the Register send was accepted
ShouldSendOnceRegistered(message_text) == message_text # <<>> /\ tx # <<>> /\ tx[1].ok

\* whether update goes on to send: !message_text.is_empty()
ShouldSend(message_text) == message_text # <<>>

\* the value of the input element after a submit that went on to send
ClearedInput == <<>>

\* mutant: the input is cleared only when the send went through
InputAfterSendOk(value, ok) == IF ok THEN ClearedInput ELSE value

\* input.set_value("") stands after the `if let Err` of the send, not inside it
InputAfterSend(value, ok) == ClearedInput

\* Chat::update on Msg::SubmitMessage
SubmitMessage ==
    /\ pc = "active"
    /\ IF IsSome(chat_input)
       THEN LET message_text == trim(Unwrap(chat_input)) IN
            IF ShouldSend(message_text)
            THEN /\ Len(tx) < MaxSends
                 /\ \E ok \in BOOLEAN :
                       /\ tx' = Append(tx, [text |-> to_string(ChatEnvelope(message_text)),
                                            ok |-> ok])
                       /\ path' = "submit_send"
                       /\ chat_input' = Some(InputAfterSend(Unwrap(chat_input), ok))
            ELSE /\ path' = "submit_blank"
                 /\ UNCHANGED <<tx, chat_input>>
       ELSE /\ path' = "submit_no_input"
            /\ UNCHANGED <<tx, chat_input>>
    /\ ret' = FALSE
    /\ shown' = Rerender(FALSE, users, messages, shown)
    /\ UNCHANGED <<pc, username, users, messages, relayed>>

\* the user edits the mounted input element
TypeInput(raw) ==
    /\ pc = "active"
    /\ IsSome(chat_input)
    /\ chat_input # Some(raw)
    /\ chat_input' = Some(raw)
    /\ UNCHANGED <<pc, username, users, messages, tx, ret, path, shown, relayed>>

Receive == \E s \in InboundFrames : HandleMsg(s)

Type == \E raw \in RawInputs : TypeInput(raw)

Next == Create \/ FirstRender \/ Receive \/ SubmitMessage \/ Type

Spec == Init /\ [][Next]_vars

----------------------------------------------------------------------------
(* create alone, for any username: the Register envelope of serde_json::to_string *)
(* over every short string of the atoms JSON text treats specially.              *)

MaxNameLen == 3

NameAtoms == {"t", "}", SPACE, QUOTE, BACKSLASH, TAB}

StringsUpTo(atoms, n) == UNION {[1..k -> atoms] : k \in 0..n}

AnyUsernames == StringsUpTo(NameAtoms, MaxNameLen)

RegisterInit ==
    /\ pc = "uninit"
    /\ username \in AnyUsernames
    /\ users = <<>>
    /\ messages = <<>>
    /\ chat_input = None
    /\ tx = <<>>
    /\ ret = FALSE
    /\ path = "none"
    /\ shown = NothingShown
    /\ relayed = None

RegisterNext == Create \/ FirstRender

RegisterSpec == RegisterInit /\ [][RegisterNext]_vars

----------------------------------------------------------------------------
(* One peer's chat payload, relayed by the server any number of times: the      *)
(* Message arm of update and the chat entry of view over every short `from` and *)
(* `message` of the atoms JSON text treats specially, and over every short      *)
(* `message` of the atoms of ".gif".                                            *)

MaxFieldLen == 2

MaxTextLen == 5

FieldAtoms == {"t", QUOTE, BACKSLASH, TAB}

GifAtoms == {".", "g", "i", "f", "F"}

\* the texts named as examples of the two kinds of content
ExampleTexts ==
    { <<"c", "a", "t", ".", "g", "i", "f">>,
      <<"c", "a", "t", ".", "g", "i", "f", ".", "p", "n", "g">>,
      <<"h", "e", "l", "l", "o">>,
      <<"c", "a", "t", ".", "G", "I", "F">> }

ContentTexts == StringsUpTo(GifAtoms, MaxTextLen) \cup ExampleTexts

AnyChatMessages ==
    {MessageData(f, m) : f \in StringsUpTo(FieldAtoms, MaxFieldLen),
                         m \in StringsUpTo(FieldAtoms, MaxFieldLen)}
    \cup {MessageData(Alice, m) : m \in ContentTexts}

PayloadInit ==
    /\ pc = "uninit"
    /\ username \in Usernames
    /\ users = <<>>
    /\ messages = <<>>
    /\ chat_input = None
    /\ tx = <<>>
    /\ ret = FALSE
    /\ path = "none"
    /\ shown = NothingShown
    /\ relayed \in {Some(m) : m \in AnyChatMessages}

\* the event bus delivers the Message frame that carries the relayed payload
Relay == IsSome(relayed) /\ HandleMsg(ChatFrame(Unwrap(relayed)))

PayloadNext == Create \/ FirstRender \/ Relay

PayloadSpec == PayloadInit /\ [][PayloadNext]_vars

----------------------------------------------------------------------------
(* What the properties are stated in: the names held, the frames by what they   *)
(* carry, and the text an input amounts to, each said without the operators of  *)
(* the component.                                                               *)

Names(us) == [k \in 1..Len(us) |-> us[k].name]

SessionState == <<users, messages>>

\* no atom of the text is anything but white space
IsBlank(s) == \A k \in 1..Len(s) : s[k] \in WhiteSpace

\* the text from its first to its last atom that is no white space
InnerText(s) ==
    LET solid == {k \in 1..Len(s) : s[k] \notin WhiteSpace} IN
    IF solid = {} THEN <<>>
    ELSE SubSeq(s, CHOOSE k \in solid : \A j \in solid : k <= j,
                   CHOOSE k \in solid : \A j \in solid : k >= j)

\* the step handles some Users-kind frame, some frame carrying a chat payload
UsersStep == \E s \in UsersFrameTexts : HandleMsg(s)

ChatStep == \E s \in ChatFrameTexts : HandleMsg(s)

AvatarPrefix == <<"https://avatars.dicebear.com/api/adventurer-neutral/">>

Placeholder == [tag |-> "div", src |-> <<>>, alt |-> <<"?">>]

----------------------------------------------------------------------------
(* The properties *)

\* C1: a step that handles a Users frame leaves in `users` exactly the names the
\* frame carries, in the frame's order, whatever was held before; every other step
\* (any other frame, a submit, typing) leaves `users` as it was.  So `users` is
\* always the list of the most recent Users frame.
C1_UsersFullReplace ==
    [][ /\ \A p \in UsersFrames : HandleMsg(p[1]) => Names(users') = p[2]
        /\ ~UsersStep => users' = users ]_vars

\* a Users frame has been handled last, and it left Bob and Carol with chat held
C1_Witness ==
    /\ path = "users"
    /\ Names(users) = <<Bob, Carol>>
    /\ messages # <<>>

\* C2: a step that handles a frame carrying a chat payload makes `messages` one
\* longer with the old sequence as its prefix; every other step leaves `messages`
\* as it was.
C2_HistoryAppendOnly ==
    [][ /\ ChatStep => /\ Len(messages') = Len(messages) + 1
                       /\ SubSeq(messages', 1, Len(messages)) = messages
        /\ ~ChatStep => messages' = messages ]_vars

\* a chat frame has been handled last and made the history two long, of two payloads
C2_Witness ==
    /\ path = "message"
    /\ Len(messages) = 2
    /\ messages[1] # messages[2]

\* C3: handling a frame that does not decode (no JSON, an unknown or missing kind,
\* a field of the wrong type, text after the value) changes neither `users` nor
\* `messages`, returns false, leaves what is shown alone and leaves the component
\* active, so that later frames are handled.
C3_MalformedIgnored ==
    [][ \A s \in MalformedFrames : HandleMsg(s) =>
            /\ SessionState' = SessionState
            /\ ret' = FALSE
            /\ shown' = shown
            /\ pc' = "active" ]_vars

\* a frame that does not decode has been handled last, with users and chat held
C3_Witness ==
    /\ path = "decode_error"
    /\ ret = FALSE
    /\ pc = "active"
    /\ users # <<>>
    /\ messages # <<>>

\* C4: a submit while the input holds nothing but white space makes no send and
\* changes neither `users` nor `messages`.
C4_BlankSubmitNoOp ==
    [][ SubmitMessage /\ IsSome(chat_input) /\ IsBlank(Unwrap(chat_input)) =>
            /\ tx' = tx
            /\ SessionState' = SessionState ]_vars

\* a submit of an input of white space has been handled last
C4_Witness ==
    /\ path = "submit_blank"
    /\ chat_input = Some(<<SPACE, TAB>>)
    /\ Len(tx) = 1

\* C5: once created, the first send ever made is the Register envelope with the
\* username as supplied, and no later send is a Register envelope; before create
\* nothing is sent; and right after create, whether that send was Ok or not, the
\* component exists with no users and no chat.
C5_RegisterOnce ==
    /\ pc = "uninit" => tx = <<>>
    /\ pc # "uninit" =>
          /\ Len(tx) >= 1
          /\ tx[1].text = to_string(WebSocketMessage("Register", None, Some(username)))
          /\ \A k \in 2..Len(tx) :
                from_str_WebSocketMessage(tx[k].text).msg.message_type # "Register"
    /\ pc = "created" => Len(tx) = 1 /\ users = <<>> /\ messages = <<>>

\* the Register send failed, the username has white space, and the session went on
\* to a later send
C5_Witness ==
    /\ pc = "active"
    /\ username = <<SPACE, "al", QUOTE>>
    /\ Len(tx) = 2
    /\ tx[1].ok = FALSE

\* C6: a submit while the input holds more than white space makes exactly one send,
\* Ok or not, of the Message envelope whose data is the input without the white
\* space around it and whose data_array is None, and changes neither `users` nor
\* `messages`.
C6_SubmitSendsOnce ==
    [][ SubmitMessage /\ IsSome(chat_input) /\ ~IsBlank(Unwrap(chat_input)) =>
            /\ \E ok \in BOOLEAN :
                  tx' = Append(tx, [text |-> to_string(WebSocketMessage("Message", None,
                                                 Some(InnerText(Unwrap(chat_input))))),
                                    ok |-> ok])
            /\ SessionState' = SessionState ]_vars

\* a submit has been handled last whose send failed, with chat held
C6_Witness ==
    /\ path = "submit_send"
    /\ tx[Len(tx)].ok = FALSE
    /\ tx[Len(tx)].text = to_string(WebSocketMessage("Message", None, Some(<<"y", TAB, "o">>)))
    /\ messages # <<>>

\* C7 as claimed: handling a frame returns true exactly when it changed `users`
\* or `messages`.
C7_Original ==
    [][ \A s \in InboundFrames : HandleMsg(s) =>
            (ret' = TRUE <=> SessionState' # SessionState) ]_vars

\* C7 as amended: handling a frame returns true exactly when the frame is a Users
\* frame or carries a chat payload; so it returns true whenever `users` or
\* `messages` changed, and also for a Users frame that carries the list held.
C7_ChangedReported ==
    [][ \A s \in InboundFrames : HandleMsg(s) =>
            /\ ret' = TRUE <=> s \in UsersFrameTexts \cup ChatFrameTexts
            /\ SessionState' # SessionState => ret' = TRUE ]_vars

\* a Users frame has been handled last and returned true with nothing held
C7_Witness ==
    /\ path = "users"
    /\ ret = TRUE
    /\ users = <<>>
    /\ messages = <<>>

\* C8: handling a Message envelope with no data, or with data that is no chat
\* payload (plain text, the empty string, a field missing, a field null), changes
\* neither `users` nor `messages`, returns false, leaves what is shown alone and
\* leaves the component active.
C8_BadChatIgnored ==
    [][ \A s \in BadChatFrames : HandleMsg(s) =>
            /\ SessionState' = SessionState
            /\ ret' = FALSE
            /\ shown' = shown
            /\ pc' = "active" ]_vars

\* a Message envelope whose data is no chat payload has been handled last
C8_Witness ==
    /\ path = "message_bad_data"
    /\ ret = FALSE
    /\ users # <<>>
    /\ messages # <<>>

\* C9: what is shown has one entry per entry of `messages`, and each shows the
\* avatar of a user of the current `users` whose name equals the entry's from, or
\* the placeholder when the current `users` has no such user.
C9_AvatarFromCurrentUsers ==
    pc = "active" =>
        /\ Len(shown.chat) = Len(messages)
        /\ \A k \in 1..Len(messages) :
              IF \E j \in 1..Len(users) : users[j].name = messages[k].from
              THEN /\ shown.chat[k].avatar.tag = "img"
                   /\ \E j \in 1..Len(users) :
                         /\ users[j].name = messages[k].from
                         /\ shown.chat[k].avatar.src = users[j].avatar
              ELSE shown.chat[k].avatar = Placeholder

\* Alice's entry is shown with the placeholder beside Carol's with her avatar,
\* under a list that names Bob first
C9_Witness ==
    /\ Names(users) = <<Bob, Carol>>
    /\ \E k \in 1..Len(messages) :
          messages[k].from = Alice /\ shown.chat[k].avatar = Placeholder
    /\ \E k \in 1..Len(messages) :
          messages[k].from = Carol /\ shown.chat[k].avatar.tag = "img"

\* C10: every profile of `users` has the avatar URL made of the fixed prefix, its
\* own name and ".svg".
C10_AvatarFromName ==
    \A k \in 1..Len(users) :
        users[k].avatar = AvatarPrefix \o users[k].name \o <<".svg">>

\* a Users frame has been handled last and left two users of different names
C10_Witness ==
    /\ path = "users"
    /\ Len(users) = 2
    /\ users[1].name # users[2].name

\* C11: a submit step taken with an input that is not blank leaves the input
\* element empty, whether the send it attempted was accepted or refused.
C11_InputCleared ==
    [][(SubmitMessage /\ IsSome(chat_input) /\ ~IsBlank(Unwrap(chat_input)))
          => /\ chat_input' = Some(<<>>)
             /\ Len(tx') = Len(tx) + 1]_vars

\* a submit has just had its send refused and the input is empty
C11_Witness ==
    /\ path = "submit_send"
    /\ Len(tx) >= 2
    /\ tx[Len(tx)].ok = FALSE
    /\ chat_input = Some(<<>>)

\* C12: whatever the username, the text create hands to the socket decodes as a
\* WebSocketMessage of kind Register whose data is that username, atom for atom,
\* and whose dataArray is absent.
C12_RegisterRoundTrip ==
    pc # "uninit" =>
        LET decoded == from_str_WebSocketMessage(tx[1].text) IN
        /\ decoded.ok
        /\ decoded.msg.message_type = "Register"
        /\ decoded.msg.data = Some(username)
        /\ decoded.msg.data_array = None

\* create has sent the envelope of a username made of a quote, a backslash and a tab
C12_Witness ==
    /\ pc = "created"
    /\ username = <<QUOTE, BACKSLASH, TAB>>
    /\ from_str_WebSocketMessage(tx[1].text).ok

\* C13: a ChatMessage written as JSON text, carried as the data string of a
\* Message envelope and handled as a frame, is appended to `messages` with the
\* `from` and the `message` it was written from, atom for atom.
C13_ChatRoundTrip ==
    [][Relay => /\ ret' = TRUE
                /\ Len(messages') = Len(messages) + 1
                /\ messages'[Len(messages')].from = Unwrap(relayed).from
                /\ messages'[Len(messages')].message = Unwrap(relayed).message]_vars

\* a payload whose `from` holds a quote and a backslash and whose `message` holds a
\* backslash and a "t" has been relayed and is the entry of `messages`
C13_Witness ==
    /\ path = "message"
    /\ IsSome(relayed)
    /\ Unwrap(relayed).from = <<QUOTE, BACKSLASH>>
    /\ Unwrap(relayed).message = <<BACKSLASH, "t">>
    /\ messages = <<Unwrap(relayed)>>

\* the last four atoms of the text are ".", "g", "i", "f"
EndsDotGif(t) ==
    LET n == Len(t) IN
    n >= 4 /\ t[n - 3] = "." /\ t[n - 2] = "g" /\ t[n - 1] = "i" /\ t[n] = "f"

\* C14: every entry of `messages` is shown as an image exactly when its message
\* ends with ".gif" in lower case, and as a paragraph of the same text otherwise.
C14_GifContentKind ==
    /\ \A k \in 1..Len(messages) :
          /\ shown.chat[k].body.text = messages[k].message
          /\ shown.chat[k].body.tag = (IF EndsDotGif(messages[k].message) THEN "img" ELSE "p")
    /\ EndsDotGif(<<"c", "a", "t", ".", "g", "i", "f">>)
    /\ \A t \in ExampleTexts \ {<<"c", "a", "t", ".", "g", "i", "f">>} : ~EndsDotGif(t)

\* "cat.gif" has been relayed twice and both entries are shown as images
C14_Witness ==
    /\ Len(messages) = 2
    /\ \A k \in 1..2 :
          /\ messages[k].message = <<"c", "a", "t", ".", "g", "i", "f">>
          /\ shown.chat[k].body.tag = "img"

\* Users frames that carry no list: dataArray null, absent, absent beside an unknown key
UsersFramesWithoutList ==
    { to_string(WebSocketMessage("Users", None, None)),
      BareFrame("users"),
      OneFieldFrame("users", "extra", <<"5">>) }

\* C15: a step that handles a Users frame whose dataArray is null or absent takes
\* the Users arm, leaves `users` empty and the side bar with it, leaves `messages`
\* as it was, and asks for a render.
C15_UsersWithoutList ==
    [][\A s \in UsersFramesWithoutList :
          HandleMsg(s) => /\ path' = "users_default"
                          /\ users' = <<>>
                          /\ messages' = messages
                          /\ ret' = TRUE
                          /\ shown'.sidebar = <<>>]_vars

\* a Users frame without a list has just emptied `users` under a history of two
C15_Witness ==
    /\ path = "users_default"
    /\ users = <<>>
    /\ Len(messages) = 2
    /\ shown.sidebar = <<>>
    /\ Len(shown.chat) = 2

\* C16: a step that handles a frame of kind Register, with or without a data string
\* and a name list, decodes it, takes the arm of the other kinds, leaves `users`,
\* `messages` and what is shown as they were and asks for no render, which is what
\* a step that handles a frame that does not decode leaves and asks.
C16_RegisterIgnored ==
    [][/\ \A s \in RegisterFrames :
             HandleMsg(s) => /\ path' = "other_kind"
                             /\ SessionState' = SessionState
                             /\ shown' = shown
                             /\ ret' = FALSE
       /\ HandleMsg(NotJsonFrame) => /\ path' = "decode_error"
                                     /\ SessionState' = SessionState
                                     /\ shown' = shown
                                     /\ ret' = FALSE]_vars

\* a Register frame has just been handled and both vectors are still filled
C16_Witness ==
    /\ path = "other_kind"
    /\ Len(users) = 2
    /\ Len(messages) = 2
    /\ ret = FALSE

\* C17: a step that handles a frame carrying a chat payload puts exactly that
\* payload at the end of `messages`, after every entry already held and also when
\* an equal payload is already held; no other step changes `messages`.  So
\* `messages` is the payloads of the chat frames handled, in the order handled.
C17_HistoryIsDeliveryLog ==
    [][ /\ \A p \in ChatFrames : HandleMsg(p[1]) => messages' = Append(messages, p[2])
        /\ ~ChatStep => messages' = messages ]_vars

\* the same payload has been handled twice and is held twice
C17_Witness ==
    /\ path = "message"
    /\ Len(messages) = 2
    /\ messages[1] = messages[2]
    /\ Len(shown.chat) = 2

\* C18: a step that handles a Users frame leaves `messages` as it was; a step that
\* handles a frame carrying a chat payload leaves `users` as it was; a submit,
\* blank or not and with its send accepted or refused, leaves both as they were;
\* and so does every step that handles neither kind of frame.
C18_FrameConditions ==
    [][ /\ UsersStep => messages' = messages
        /\ ChatStep => users' = users
        /\ SubmitMessage => SessionState' = SessionState
        /\ (~UsersStep /\ ~ChatStep) => SessionState' = SessionState ]_vars

\* a submit has just had its send accepted and both vectors are still filled
C18_Witness ==
    /\ path = "submit_send"
    /\ tx[Len(tx)].ok
    /\ Len(users) = 2
    /\ Len(messages) = 2

\* the texts handed to the socket, in order, without the results of the sends
OutTexts(sends) == [k \in 1..Len(sends) |-> sends[k].text]

\* the texts a submit hands to the socket, from the value of the input alone
SubmitTexts(input) ==
    IF IsSome(input) /\ ~IsBlank(Unwrap(input))
    THEN <<to_string(WebSocketMessage("Message", None, Some(InnerText(Unwrap(input)))))>>
    ELSE <<>>

\* C19: the texts handed to the socket are settled by the username and the values
\* the input holds at the submits, and by nothing received: create hands over the
\* one text written from the username; a submit adds the texts written from the
\* value of the input, whatever `users` and `messages` hold; and a step that
\* handles a frame, any frame, adds no text and leaves the value of the input as
\* it was.  Two runs with the same username and the same submits therefore hand
\* over the same texts in the same order, whatever frames each receives.
C19_OutboundFromInputsOnly ==
    [][ /\ Create => OutTexts(tx') = <<to_string(WebSocketMessage("Register", None, Some(username)))>>
        /\ SubmitMessage => OutTexts(tx') = OutTexts(tx) \o SubmitTexts(chat_input)
        /\ Receive => tx' = tx /\ chat_input' = chat_input /\ username' = username
        /\ (FirstRender \/ Type) => tx' = tx /\ username' = username ]_vars

\* with users and chat received in between, a submit has handed over the text
\* written from its input and nothing of what was received
C19_Witness ==
    /\ path = "submit_send"
    /\ Len(users) = 2
    /\ Len(messages) = 1
    /\ OutTexts(tx) = << to_string(WebSocketMessage("Register", None, Some(username))),
                         to_string(WebSocketMessage("Message", None, Some(<<"y", TAB, "o">>))) >>

\* the kind of the envelope a text handed to the socket decodes to
SentKind(send) == from_str_WebSocketMessage(send.text).msg.message_type

\* C20: the step that makes the first send is create, and that send is the Register
\* envelope; every send after it is a Message envelope, so none comes before it;
\* and a submit of an input that is not blank sends its Message envelope also
\* when the Register send was refused.
C20_RegisterFirstNoGating ==
    [][ /\ (tx = <<>> /\ tx' # <<>>) =>
              Create /\ Len(tx') = 1 /\ SentKind(tx'[1]) = "Register"
        /\ (tx # <<>> /\ tx' # tx) =>
              /\ SubSeq(tx', 1, Len(tx)) = tx
              /\ Len(tx') = Len(tx) + 1
              /\ SentKind(tx'[Len(tx')]) = "Message"
        /\ (SubmitMessage /\ IsSome(chat_input) /\ ~IsBlank(Unwrap(chat_input))) =>
              /\ tx # <<>>
              /\ Len(tx') = Len(tx) + 1
              /\ SentKind(tx'[Len(tx')]) = "Message" ]_vars

\* the Register send was refused, and a submit after it had its Message envelope
\* accepted
C20_Witness ==
    /\ path = "submit_send"
    /\ Len(tx) = 2
    /\ SentKind(tx[1]) = "Register" /\ ~tx[1].ok
    /\ SentKind(tx[2]) = "Message" /\ tx[2].ok

====
